---- MODULE Spec2Model ----
(***************************************************************************)
(* A model of sequence.ts (src/mod.ts): the Sequence wrapper, its lazy     *)
(* generator combinators and its terminal consumers.                       *)
(*                                                                         *)
(* The state is a heap of iterables (arrays and generator objects), the    *)
(* list of Sequence objects built so far, and the terminal-consumer call   *)
(* in progress.  A generator object is a record holding the locals of its  *)
(* body and its resumption state; next() and return() on it are the        *)
(* operators IterNext and IterReturn.                                      *)
(***************************************************************************)
EXTENDS Integers, Sequences, FiniteSets, TLC

VARIABLES its, seqs, call

vars == <<its, seqs, call>>

(***************************************************************************)
(* Bounds of the model.                                                    *)
(***************************************************************************)
MaxLen == 2        \* longest root array
MaxVal == 1        \* numeric elements are 0..MaxVal
MaxArg == 2        \* largest amount / start / end argument
MaxStages == 2     \* chain-building calls per behaviour (and one more call
                   \* in all, terminal consumers included)
MaxPulls == 6      \* next() calls a caller makes on one iterator
MaxDraws == 3      \* numbers one generate() generator draws
MaxNest == 2       \* deepest nesting of arrays inside a root array

(***************************************************************************)
(* Values.  Elements are small numbers or the undefined value.             *)
(***************************************************************************)
Undefined == -1

Nums == 0..MaxVal

Val == Nums \cup {Undefined}

\* NaN, as undefined + i gives it; NaN === x is false for every x
NaN == -6

\* Further values, met by join: null, the strings "" and "a", and an
\* object that has no toString method (Object.create(null))
Null == -2

StrEmpty == -3

StrA == -4

Bare == -5

\* A nested array is an object of the heap: the element Ref(k) is the array
\* held in heap cell k
RefBase == 100

Ref(k) == RefBase + k

IsRef(x) == x > RefBase

Target(x) == x - RefBase

\* typeof x === "string"
IsString(x) == x \in {StrEmpty, StrA}

\* A string is the sequence of its characters.
Chars(x) == IF x = StrA THEN <<"a">> ELSE <<>>

Digit(d) == <<"0", "1", "2", "3", "4", "5", "6", "7", "8", "9">>[d + 1]

\* Number.prototype.toString on a natural number
RECURSIVE NumText(_)
NumText(n) ==
  IF n < 10 THEN <<Digit(n)>> ELSE NumText(n \div 10) \o <<Digit(n % 10)>>

\* the value of  y  in join once set from x (x neither undefined nor null):
\* def is false when y is undefined
JoinForm(x) ==
  IF IsString(x) THEN [def |-> TRUE, s |-> Chars(x)]
  ELSE IF x = Bare THEN [def |-> FALSE, s |-> <<>>]
  ELSE IF x = NaN THEN [def |-> TRUE, s |-> <<"N", "a", "N">>]
  ELSE [def |-> TRUE, s |-> NumText(x)]

\* !y
Falsy(y) == ~y.def \/ y.s = <<>>

RECURSIVE SeqsUpTo(_, _)
SeqsUpTo(S, n) ==
  IF n = 0 THEN {<<>>}
  ELSE LET shorter == SeqsUpTo(S, n - 1)
       IN  shorter \cup {Append(s, x) : s \in {t \in shorter : Len(t) = n - 1}, x \in S}

(***************************************************************************)
(* Caller-supplied callbacks, as data.                                     *)
(***************************************************************************)
Fn(name, c, d, neg) == [name |-> name, c |-> c, d |-> d, neg |-> neg]

NoFn == Fn("none", 0, 0, FALSE)

\* (x, i) => x + i   (README), on numbers, undefined, NaN and null
AddIdx == Fn("addIdx", 0, 0, FALSE)

\* (_, i) => i   (Sequence.indexes)
Indexes == Fn("indexes", 0, 0, FALSE)

\* x => x === a ? b : x   (Sequence.replace)
Replace(a, b) == Fn("replace", a, b, FALSE)

\* x => x === y   (Sequence.includes)
Eq(y) == Fn("eq", y, 0, FALSE)

\* x => x !== y   (test.ts, README)
Ne(y) == Fn("eq", y, 0, TRUE)

\* (x, i) => i === c
At(c) == Fn("at", c, 0, FALSE)

\* a callback that throws when called with index c, and returns x (or true)
\* before; as a sort comparator it throws on every call
ThrowAt(c) == Fn("throwAt", c, 0, FALSE)

\* the call f(x, i) throws
Throws(f, x, i) == f.name = "throwAt" /\ i = f.c

\* (x, i) => !f(x, i)   (Sequence.every)
Not(f) == [f EXCEPT !.neg = ~@]

\* x === y
StrictEq(x, y) == x # NaN /\ y # NaN /\ x = y

\* x + i for a number i: undefined and NaN give NaN, null counts as 0
Plus(x, i) ==
  IF x \in {Undefined, NaN} THEN NaN
  ELSE IF x = Null THEN i
  ELSE x + i

\* (o, x, i) => o + 1, a reducer that counts the elements
Inc == Fn("inc", 0, 0, FALSE)

Apply(f, x, i) ==
  CASE f.name = "addIdx"  -> Plus(x, i)
    [] f.name = "indexes" -> i
    [] f.name = "replace" -> IF StrictEq(x, f.c) THEN f.d ELSE x
    [] OTHER              -> x

Test(f, x, i) ==
  LET b == CASE f.name = "eq" -> StrictEq(x, f.c)
             [] f.name = "at" -> i = f.c
             [] f.name = "throwAt" -> TRUE
             [] OTHER         -> FALSE
  IN  IF f.neg THEN ~b ELSE b

(***************************************************************************)
(* Heap cells.  One record shape for every iterable:                       *)
(*   kind   "array", "generate" (test.ts generate()) or a combinator        *)
(*   ups    the iterables the generator was given                          *)
(*   a, b   numeric arguments; f  the callback; elems  array contents      *)
(*   st     "start" (not yet run), "susp" (at a yield), "run", "done"      *)
(*   i      the body's counter; pos  cursor of the array iterator the body *)
(*          holds on its upstream; buf  buffered elements                  *)
(*   nexts  next() requests received; outs  elements handed out            *)
(*   reqs   requests issued upstream; xs  the elements received from       *)
(*          upstream, in order; ys  the elements yielded, in order         *)
(*   via    the Sequence method that made the generator, and  n  the       *)
(*          amount it was called with (takeLast and dropLast make a slice, *)
(*          push and unshift a concat)                                     *)
(*   ns     for each element of xs, its rank among all the elements the    *)
(*          upstream iterable has handed out, to whichever consumer        *)
(***************************************************************************)
Cell(kind, ups, a, b, f, elems) ==
  [kind |-> kind, ups |-> ups, a |-> a, b |-> b, f |-> f, elems |-> elems,
   st |-> "start", i |-> 0, pos |-> 0, buf |-> <<>>,
   nexts |-> 0, outs |-> 0, reqs |-> 0, xs |-> <<>>, ys |-> <<>>,
   via |-> kind, n |-> a, ns |-> <<>>]

\* the generator cell c, made by method `via` called with amount n
Via(c, via, n) == [c EXCEPT !.via = via, !.n = n]

ArrayCell(elems) == Cell("array", <<>>, 0, 0, NoFn, elems)

\* the generator object generate() returns
GenerateCell == Cell("generate", <<>>, 0, 0, NoFn, <<>>)


(***************************************************************************)
(* Generator bodies.  A body is cut at the points where it asks its        *)
(* upstream for an element.  For a generator cell c:                       *)
(*   resume(c)         the code run from the resumption point up to the    *)
(*                     next upstream request                               *)
(*   <kind>(c, tag, v) the code run once the upstream answered: tag "val"  *)
(*                     with element v, or tag "done"                       *)
(* Each gives a decision [c, act, v]: the updated locals and what the body *)
(* does next: "pull" (ask ups[v]), "loop" (next iteration), "yield" v,     *)
(* "return" (leave the for-of loop over ups[v] early), "finish" (run off   *)
(* the end), "throw" (error v thrown inside its for-of loop), "abort"      *)
(* (error v thrown outside any loop), "enter" (flat: loop over the nested  *)
(* array v) or "cut" (beyond MaxDraws: outside the model).                 *)
(***************************************************************************)
Do(c, act, v) == [c |-> c, act |-> act, v |-> v]

\* function* map: for (const x of iterable) yield f(x, i++)
map(c, tag, v) ==
  IF tag = "done" THEN Do(c, "finish", 1)
  ELSE IF Throws(c.f, v, c.i) THEN Do([c EXCEPT !.i = @ + 1], "throw", "Boom")
  ELSE Do([c EXCEPT !.i = @ + 1], "yield", Apply(c.f, v, c.i))

\* function* filter: for (const x of iterable) if (f(x, i++)) yield x
filter(c, tag, v) ==
  IF tag = "done" THEN Do(c, "finish", 1)
  ELSE IF Throws(c.f, v, c.i) THEN Do([c EXCEPT !.i = @ + 1], "throw", "Boom")
  ELSE IF Test(c.f, v, c.i) THEN Do([c EXCEPT !.i = @ + 1], "yield", v)
  ELSE Do([c EXCEPT !.i = @ + 1], "loop", 1)

\* function* forEach: for (const x of iterable) { f(x, i++); yield x }
forEach(c, tag, v) ==
  IF tag = "done" THEN Do(c, "finish", 1)
  ELSE IF Throws(c.f, v, c.i) THEN Do([c EXCEPT !.i = @ + 1], "throw", "Boom")
  ELSE Do([c EXCEPT !.i = @ + 1], "yield", v)

\* function* concat: for (const iterable of iterables) for (const x of iterable) yield x
\* i is the number of iterables already exhausted
concat(c, tag, v) ==
  IF tag = "done" THEN Do([c EXCEPT !.i = @ + 1, !.pos = 0], "loop", 1)
  ELSE Do(c, "yield", v)

\* flat(iterable) called with no depth
Omitted == 1000

isNumber(depth) == depth # Omitted

\* isIterable(x) for x neither undefined nor null: of the values here, arrays
\* and strings
isIterable(x) == IsRef(x) \/ IsString(x)

\* function* flat: a = depth; i = 1 while inside the inner loop over
\* flat(x, subdepth), which is then ups[2]
flat(c, tag, v) ==
  IF c.i = 1
  THEN IF tag = "done" THEN Do([c EXCEPT !.i = 0, !.ups = <<c.ups[1]>>], "loop", 1)
       ELSE Do(c, "yield", v)
  ELSE IF tag = "done" THEN Do(c, "finish", 1)
  ELSE IF c.a = 0 THEN Do(c, "yield", v)
  ELSE IF IsString(v) THEN Do(c, "yield", v)
  ELSE IF v \in {Undefined, Null} THEN Do(c, "throw", "TypeError")
  ELSE IF ~isIterable(v) THEN Do(c, "yield", v)
  ELSE Do(c, "enter", v)

\* function* reverse: for (const x of iterable) stack.unshift(x)
\*                    for (const x of stack) yield x
\* buf is the stack, i the cursor of the second loop
reverse(c, tag, v) ==
  IF tag = "val" THEN Do([c EXCEPT !.buf = <<v>> \o @], "loop", 1)
  ELSE IF c.buf # <<>> THEN Do([c EXCEPT !.i = 1], "yield", c.buf[1])
  ELSE Do(c, "finish", 1)

\* a pop without look-ahead: it hands each element on as it arrives
popNoLookahead(c, tag, v) ==
  IF tag = "done" THEN Do(c, "finish", 1)
  ELSE Do([c EXCEPT !.buf = <<v>>], "yield", v)

\* function* pop.  buf is <<>> while `first`, <<last>> between iterations and
\* <<last, x>> while suspended at `yield last` (x not yet stored in last)
pop(c, tag, v) ==
  IF tag = "done" THEN Do(c, "finish", 1)
  ELSE IF c.buf = <<>> THEN Do([c EXCEPT !.buf = <<v>>], "loop", 1)
  ELSE Do([c EXCEPT !.buf = <<c.buf[1], v>>], "yield", c.buf[1])

\* function* shift: i = 0 while `first`
shift(c, tag, v) ==
  IF tag = "done" THEN Do(c, "finish", 1)
  ELSE IF c.i = 0 THEN Do([c EXCEPT !.i = 1], "loop", 1)
  ELSE Do(c, "yield", v)

\* a slice with an exclusive end: if (i >= start && i < end) yield x
sliceExclusive(c, tag, v) ==
  IF tag = "done" THEN Do(c, "finish", 1)
  ELSE IF c.i >= c.a /\ c.i < c.b THEN Do(c, "yield", v)
  ELSE IF c.i > c.b THEN Do([c EXCEPT !.i = @ + 1], "return", 1)
  ELSE Do([c EXCEPT !.i = @ + 1], "loop", 1)

\* function* slice: a = start, b = end
\*   if (i >= start && i <= end) yield x
\*   if (i++ > end) return
\* (after a yield the second line runs when the body is resumed)
slice(c, tag, v) ==
  IF tag = "done" THEN Do(c, "finish", 1)
  ELSE IF c.i >= c.a /\ c.i <= c.b THEN Do(c, "yield", v)
  ELSE IF c.i > c.b THEN Do([c EXCEPT !.i = @ + 1], "return", 1)
  ELSE Do([c EXCEPT !.i = @ + 1], "loop", 1)

\* a take with no `else return`: it keeps pulling once past amount
takeNoReturn(c, tag, v) ==
  IF tag = "done" THEN Do(c, "finish", 1)
  ELSE IF c.i <= c.a - 1 THEN Do([c EXCEPT !.i = @ + 1], "yield", v)
  ELSE Do([c EXCEPT !.i = @ + 1], "loop", 1)

\* function* take: if (i++ <= amount - 1) yield x; else return
take(c, tag, v) ==
  IF tag = "done" THEN Do(c, "finish", 1)
  ELSE IF c.i <= c.a - 1 THEN Do([c EXCEPT !.i = @ + 1], "yield", v)
  ELSE Do([c EXCEPT !.i = @ + 1], "return", 1)

\* a drop that withholds exactly `amount` elements: if (i++ >= amount) yield x
dropExact(c, tag, v) ==
  IF tag = "done" THEN Do(c, "finish", 1)
  ELSE IF c.i >= c.a THEN Do([c EXCEPT !.i = @ + 1], "yield", v)
  ELSE Do([c EXCEPT !.i = @ + 1], "loop", 1)

\* function* drop: if (i++ >= amount - 1) yield x
drop(c, tag, v) ==
  IF tag = "done" THEN Do(c, "finish", 1)
  ELSE IF c.i >= c.a - 1 THEN Do([c EXCEPT !.i = @ + 1], "yield", v)
  ELSE Do([c EXCEPT !.i = @ + 1], "loop", 1)

\* what Math.round(Math.random() * 100) may give, kept to the numbers of
\* the model
Randoms == Nums

\* test.ts generate: while (true) yield Math.round(Math.random() * 100)
\* v is the number drawn; pos counts the elements yielded
generate(c, v) ==
  IF c.pos >= MaxDraws THEN Do(c, "cut", 1)
  ELSE Do([c EXCEPT !.pos = @ + 1], "yield", v)

\* from the resumption point to the next upstream request (of a combinator)
resume(c) ==
  CASE c.kind = "flat" ->
         IF c.st = "start" /\ isNumber(c.a) /\ c.a < 0 THEN Do(c, "abort", "NegativeDepth")
         ELSE Do(c, "pull", c.i + 1)
    [] c.kind = "concat" ->
         IF c.i >= Len(c.ups) THEN Do(c, "finish", 1) ELSE Do(c, "pull", c.i + 1)
    [] c.kind = "reverse" /\ c.st = "susp" ->
         IF c.i < Len(c.buf) THEN Do([c EXCEPT !.i = @ + 1], "yield", c.buf[c.i + 1])
         ELSE Do(c, "finish", 1)
    [] c.kind = "pop" /\ c.st = "susp" ->
         Do([c EXCEPT !.buf = <<c.buf[2]>>], "pull", 1)
    [] c.kind = "slice" /\ c.st = "susp" ->
         IF c.i > c.b THEN Do([c EXCEPT !.i = @ + 1], "return", 1)
         ELSE Do([c EXCEPT !.i = @ + 1], "pull", 1)
    [] OTHER -> Do(c, "pull", 1)

\* the upstream answered
answer(c, tag, v) ==
  CASE c.kind = "map"     -> map(c, tag, v)
    [] c.kind = "filter"  -> filter(c, tag, v)
    [] c.kind = "forEach" -> forEach(c, tag, v)
    [] c.kind = "concat"  -> concat(c, tag, v)
    [] c.kind = "reverse" -> reverse(c, tag, v)
    [] c.kind = "pop"     -> pop(c, tag, v)
    [] c.kind = "shift"   -> shift(c, tag, v)
    [] c.kind = "slice"   -> slice(c, tag, v)
    [] c.kind = "take"    -> take(c, tag, v)
    [] c.kind = "drop"    -> drop(c, tag, v)
    [] c.kind = "flat"    -> flat(c, tag, v)

(***************************************************************************)
(* The iterator protocol.                                                  *)
(*   IterNext(h, u, p)  next() on the iterator a consumer holds over u; p  *)
(*                      is the consumer's cursor when u is an array        *)
(*   IterReturn(h, u)   return() on it, as a for-of loop calls it when it  *)
(*                      is left early                                      *)
(* IterNext gives [h, tag, v, pos]: the heap afterwards, tag "val" (v was  *)
(* produced), "done" (exhausted), "throw" (v names the error thrown) or    *)
(* "cut", and the consumer's new cursor.                                   *)
(***************************************************************************)
\* the iterable a suspended generator is looping over, 0 if none (flat
\* inside its inner loop: the inner one)
LoopsOver(c) ==
  CASE c.kind \in {"generate", "reverse"} -> 0
    [] c.kind = "concat" -> c.ups[c.i + 1]
    [] c.kind = "flat" -> c.ups[c.i + 1]
    [] OTHER -> c.ups[1]

\* an array iterator has no return method.  return() on a generator that
\* never ran just completes it; on one suspended inside a for-of loop it
\* leaves that loop, which closes the upstream iterator in turn; flat inside
\* its inner loop leaves both its loops
\* a return() that completes the generator and leaves the iterator of the
\* loop it was in open
IterReturnShallow(h, u) ==
  IF h[u].kind = "array" \/ h[u].st = "done" THEN h
  ELSE [h EXCEPT ![u].st = "done"]

RECURSIVE IterReturn(_, _)
IterReturn(h, u) ==
  IF h[u].kind = "array" \/ h[u].st = "done" THEN h
  ELSE IF h[u].st = "start" \/ LoopsOver(h[u]) = 0 THEN [h EXCEPT ![u].st = "done"]
  ELSE IF h[u].kind = "flat" /\ h[u].i = 1
  THEN IterReturn(IterReturn([h EXCEPT ![u].st = "done"], h[u].ups[2]), h[u].ups[1])
  ELSE IterReturn([h EXCEPT ![u].st = "done"], LoopsOver(h[u]))

Out(h, tag, v, p) == [h |-> h, tag |-> tag, v |-> v, pos |-> p]

\* generate() answering its first next() out of a duplicate of itself: the
\* generator the Sequences share stays at its start
SettleOnCopy(h, g, d, p) ==
  IF d.act = "yield" /\ d.c.ups = <<>> /\ d.c.nexts = 1
  THEN Out([h EXCEPT ![g].nexts = 1], "val", d.v, p)
  ELSE
  CASE d.act = "yield" ->
         Out([h EXCEPT ![g] = [d.c EXCEPT !.st = "susp", !.outs = @ + 1,
                                          !.ys = Append(@, d.v)]], "val", d.v, p)
    [] d.act = "return" ->
         Out(IterReturn([h EXCEPT ![g] = [d.c EXCEPT !.st = "done"]], d.c.ups[d.v]),
             "done", Undefined, p)
    [] d.act = "finish" ->
         Out([h EXCEPT ![g] = [d.c EXCEPT !.st = "done"]], "done", Undefined, p)
    [] d.act = "throw" ->
         \* the error leaves the for-of loops the body is in, closing their
         \* iterators, and then the body
         Out(IterReturn([h EXCEPT ![g] = [d.c EXCEPT !.st = "run"]], g), "throw", d.v, p)
    [] d.act = "rethrow" ->
         \* next() of the iterator of the innermost loop threw: that loop
         \* closes nothing, an enclosing for-of loop (flat's outer one) does
         Out(IF d.c.kind = "flat" /\ d.c.i = 1
             THEN IterReturn([h EXCEPT ![g] = [d.c EXCEPT !.st = "done"]], d.c.ups[1])
             ELSE [h EXCEPT ![g] = [d.c EXCEPT !.st = "done"]],
             "throw", d.v, p)
    [] d.act = "abort" ->
         Out([h EXCEPT ![g] = [d.c EXCEPT !.st = "done"]], "throw", d.v, p)
    [] OTHER -> Out(h, "cut", Undefined, p)

\* a generator that is ready to run again from the top once its body ended
SettleRestartable(h, g, d, p) ==
  CASE d.act = "yield" ->
         Out([h EXCEPT ![g] = [d.c EXCEPT !.st = "susp", !.outs = @ + 1,
                                          !.ys = Append(@, d.v)]], "val", d.v, p)
    [] d.act \in {"return", "finish"} ->
         Out([h EXCEPT ![g] = [d.c EXCEPT !.st = "start", !.i = 0, !.pos = 0,
                                          !.buf = <<>>]], "done", Undefined, p)
    [] d.act \in {"throw", "rethrow", "abort"} ->
         Out([h EXCEPT ![g] = [d.c EXCEPT !.st = "done"]], "throw", d.v, p)
    [] OTHER -> Out(h, "cut", Undefined, p)

\* the body of generator g reaches a yield, its end or a return
Settle(h, g, d, p) ==
  CASE d.act = "yield" ->
         Out([h EXCEPT ![g] = [d.c EXCEPT !.st = "susp", !.outs = @ + 1,
                                          !.ys = Append(@, d.v)]], "val", d.v, p)
    [] d.act = "return" ->
         Out(IterReturn([h EXCEPT ![g] = [d.c EXCEPT !.st = "done"]], d.c.ups[d.v]),
             "done", Undefined, p)
    [] d.act = "finish" ->
         Out([h EXCEPT ![g] = [d.c EXCEPT !.st = "done"]], "done", Undefined, p)
    [] d.act = "throw" ->
         \* the error leaves the for-of loops the body is in, closing their
         \* iterators, and then the body
         Out(IterReturn([h EXCEPT ![g] = [d.c EXCEPT !.st = "run"]], g), "throw", d.v, p)
    [] d.act = "rethrow" ->
         \* next() of the iterator of the innermost loop threw: that loop
         \* closes nothing, an enclosing for-of loop (flat's outer one) does
         Out(IF d.c.kind = "flat" /\ d.c.i = 1
             THEN IterReturn([h EXCEPT ![g] = [d.c EXCEPT !.st = "done"]], d.c.ups[1])
             ELSE [h EXCEPT ![g] = [d.c EXCEPT !.st = "done"]],
             "throw", d.v, p)
    [] d.act = "abort" ->
         Out([h EXCEPT ![g] = [d.c EXCEPT !.st = "done"]], "throw", d.v, p)
    [] OTHER -> Out(h, "cut", Undefined, p)

\* the locals of generator c once its upstream, the iterable up, answered r
Received(c, r, up) ==
  [c EXCEPT !.pos = r.pos, !.reqs = @ + 1,
            !.xs = IF r.tag = "val" THEN Append(@, r.v) ELSE @,
            !.ns = IF r.tag = "val" THEN Append(@, up.outs) ELSE @]

\* what the body, its locals being c, does with the answer r: an error
\* thrown by next() goes on through the body
Decide(c, r) ==
  IF r.tag = "throw" THEN Do(c, "rethrow", r.v) ELSE answer(c, r.tag, r.v)

\* flat(x, subdepth) called by generator u, x being d.v: a new generator
\* over that array, which u then loops over
Enter(h, u, d) ==
  LET sub   == IF isNumber(d.c.a) THEN d.c.a - 1 ELSE Omitted
      inner == Cell("flat", <<Target(d.v)>>, sub, 0, NoFn, <<>>)
      me    == [d.c EXCEPT !.i = 1, !.ups = <<d.c.ups[1], Len(h) + 1>>]
  IN  Append([h EXCEPT ![u] = me], inner)

\* one round of the body of u, from the answer r of its upstream to decision
\* d: either the body goes round again, over heap h, or next() gives out
Round(h0, u, p, r, d) ==
  IF r.tag = "cut"
  THEN [again |-> FALSE, h |-> h0, out |-> Out(h0, "cut", Undefined, p)]
  ELSE IF d.act = "loop"
  THEN [again |-> TRUE, h |-> [r.h EXCEPT ![u] = d.c], out |-> Out(h0, "cut", Undefined, p)]
  ELSE IF d.act = "enter"
  THEN [again |-> TRUE, h |-> Enter(r.h, u, d), out |-> Out(h0, "cut", Undefined, p)]
  ELSE [again |-> FALSE, h |-> r.h, out |-> Settle(r.h, u, d, p)]

\* ... r being the answer of ups[k]
AfterPull(h0, u, p, r, up) ==
  Round(h0, u, p, r, Decide(Received(r.h[u], r, r.h[up]), r))

\* fresh: this is the next() call itself; otherwise the body of u is looping.
\* The set of the outcomes next() may have: one for each way the numbers
\* drawn by the generate() generators it reaches may fall.
RECURSIVE Run(_, _, _, _)
Run(h, u, p, fresh) ==
  IF h[u].kind = "array"
  THEN IF p < Len(h[u].elems)
       THEN {Out([h EXCEPT ![u].nexts = @ + 1, ![u].outs = @ + 1], "val",
                 h[u].elems[p + 1], p + 1)}
       ELSE {Out([h EXCEPT ![u].nexts = @ + 1], "done", Undefined, p)}
  ELSE IF fresh /\ h[u].st = "done"
  THEN {Out([h EXCEPT ![u].nexts = @ + 1], "done", Undefined, p)}
  ELSE IF h[u].kind = "generate"
  THEN {Settle(h, u, generate([h[u] EXCEPT !.nexts = @ + 1], v), p) : v \in Randoms}
  ELSE LET pre == resume(IF fresh THEN [h[u] EXCEPT !.nexts = @ + 1] ELSE h[u])
       IN  IF pre.act # "pull" THEN {Settle(h, u, pre, p)}
           ELSE UNION {LET t == AfterPull(h, u, p, r, pre.c.ups[pre.v])
                       IN  IF t.again THEN Run(t.h, u, p, FALSE) ELSE {t.out} :
                         r \in Run([h EXCEPT ![u] = [pre.c EXCEPT !.st = "run"]],
                                   pre.c.ups[pre.v], pre.c.pos, TRUE)}

\* an iteration that takes its elements off the array (array.shift()) in
\* place of reading them through a cursor
IterNextConsuming(h, u, p) ==
  IF h[u].kind = "array"
  THEN IF h[u].elems # <<>>
       THEN {Out([h EXCEPT ![u].nexts = @ + 1, ![u].outs = @ + 1, ![u].elems = Tail(@)],
                 "val", h[u].elems[1], p)}
       ELSE {Out([h EXCEPT ![u].nexts = @ + 1], "done", Undefined, p)}
  ELSE Run(h, u, p, TRUE)

IterNext(h, u, p) == Run(h, u, p, TRUE)


\* [...iter]: drive u to exhaustion, collecting its elements; the set of the
\* outcomes
RECURSIVE Spread(_, _, _, _)
Spread(h, u, p, acc) ==
  UNION {IF r.tag = "val" THEN Spread(r.h, u, r.pos, Append(acc, r.v))
         ELSE {[h |-> r.h, tag |-> r.tag, out |-> acc, v |-> r.v]} :
           r \in IterNext(h, u, p)}

\* Array.prototype.sort with no comparator, on single-digit numbers and NaN:
\* by their strings ("NaN" after every digit), undefined elements last
SortLeq(x, y) ==
  \/ y = Undefined
  \/ /\ x # Undefined
     /\ y = NaN \/ (x # NaN /\ x <= y)

RECURSIVE InsertSorted(_, _)
InsertSorted(s, x) ==
  IF s = <<>> THEN <<x>>
  ELSE IF SortLeq(s[1], x) THEN <<s[1]>> \o InsertSorted(Tail(s), x)
  ELSE <<x>> \o s

RECURSIVE DefaultSort(_)
DefaultSort(s) ==
  IF s = <<>> THEN <<>>
  ELSE InsertSorted(DefaultSort(SubSeq(s, 1, Len(s) - 1)), s[Len(s)])

(***************************************************************************)
(* Chain building.  A stage descriptor names the method and its arguments; *)
(* x is the extra iterable handed to concat / push / unshift.              *)
(***************************************************************************)
Stage(kind, a, b, f, x) == [kind |-> kind, a |-> a, b |-> b, f |-> f, x |-> x]

\* a generator function that ran its body up to the first yield when called
NewGenStarted(h, c) ==
  (CHOOSE r \in IterNext(Append(h, c), Len(h) + 1, 0) : TRUE).h

\* calling a generator function creates a suspended generator object and
\* runs none of its body
NewGen(h, c) == Append(h, c)

\* the Sequence a chain method is called on: the latest one built
Cur == seqs[Len(seqs)]

\* Sequence.pipe(f) for a method whose f is a generator call on iter;
\* u is this.iterable
PipeLazy(h, s, u) ==
  LET n == Len(h)
  IN  CASE s.kind \in {"push", "concat"} ->
             NewGen(Append(h, s.x),
                    Via(Cell("concat", <<u, n + 1>>, 0, 0, NoFn, <<>>), s.kind, 0))
        [] s.kind = "unshift" ->
             NewGen(Append(h, s.x),
                    Via(Cell("concat", <<n + 1, u>>, 0, 0, NoFn, <<>>), s.kind, 0))
        [] OTHER ->
             NewGen(h, Cell(s.kind, <<u>>, s.a, s.b, s.f, <<>>))

\* takeLast / dropLast / sort: f spreads iter into an array when pipe calls it
IsEager(kind) == kind \in {"takeLast", "dropLast", "sort"}

\* a takeLast whose start is one too far: start = array.length - amount + 1
PipeEagerLateStart(h, s, array) ==
  LET withArray == Append(h, ArrayCell(IF s.kind = "sort" THEN DefaultSort(array) ELSE array))
      n == Len(withArray)
      L == Len(array)
  IN  CASE s.kind = "takeLast" ->
             NewGen(withArray,
                    Via(Cell("slice", <<n>>, L - s.a + 1, L - 1, NoFn, <<>>), s.kind, s.a))
        [] s.kind = "dropLast" ->
             NewGen(withArray,
                    Via(Cell("slice", <<n>>, 0, L - s.a - 1, NoFn, <<>>), s.kind, s.a))
        [] OTHER -> withArray

PipeEager(h, s, array) ==
  LET withArray == Append(h, ArrayCell(IF s.kind = "sort" THEN DefaultSort(array) ELSE array))
      n == Len(withArray)
      L == Len(array)
  IN  CASE s.kind = "takeLast" ->
             NewGen(withArray,
                    Via(Cell("slice", <<n>>, L - s.a, L - 1, NoFn, <<>>), s.kind, s.a))
        [] s.kind = "dropLast" ->
             NewGen(withArray,
                    Via(Cell("slice", <<n>>, 0, L - s.a - 1, NoFn, <<>>), s.kind, s.a))
        [] OTHER -> withArray

\* st is "idle", "run", "ret" (returned) or "threw"; err names the error
\* thrown; sep and text are join's separator and result; was is the state
\* the target iterable was in when the call began; nth counts the calls
\* that have returned or thrown before
NoCall ==
  [op |-> "none", f |-> NoFn, tgt |-> 0, st |-> "idle", pos |-> 0, i |-> 0,
   reqs |-> 0, seen |-> <<>>, out |-> <<>>, val |-> Undefined, flag |-> FALSE,
   sep |-> <<>>, text |-> <<>>, err |-> "none", was |-> "none", nth |-> 0]

\* Array.prototype.sort calls the comparator only when at least two elements
\* are not undefined
SortThrows(s, array) ==
  /\ s.kind = "sort" /\ s.f.name = "throwAt"
  /\ Len(SelectSeq(array, LAMBDA x : x # Undefined)) >= 2

\* A chain-building call that throws makes no Sequence; the call recorded is
\* then the method, with st "threw".
\* the rest of an eager method s once [...iter] has given m
AfterSpread(s, m) ==
  /\ m.tag # "cut"
  /\ IF m.tag = "throw" \/ SortThrows(s, m.out)
     THEN /\ its' = m.h
          /\ seqs' = seqs
          /\ call' = [call EXCEPT !.op = s.kind, !.st = "threw",
                                  !.err = IF m.tag = "throw" THEN m.v ELSE "Boom"]
     ELSE /\ its' = PipeEager(m.h, s, m.out)
          /\ seqs' = Append(seqs, Len(its'))
          /\ call' = call

\* the chain method s called on the Sequence whose iterable is u
BuildOn(u, s) ==
  /\ call.op = "none"
  /\ Len(seqs) <= MaxStages
  /\ Len(seqs) + call.nth <= MaxStages + 1
  /\ IF IsEager(s.kind)
     THEN \E m \in Spread(its, u, 0, <<>>) : AfterSpread(s, m)
     ELSE /\ its' = PipeLazy(its, s, u)
          /\ seqs' = Append(seqs, Len(its'))
          /\ call' = call

\* ... on the latest Sequence built: a chain  new Sequence(..).m1(..).m2(..)
Build(s) == BuildOn(Cur, s)

(***************************************************************************)
(* Terminal consumers.  find, some, every and includes all run the loop of *)
(* find; f is the predicate that reaches it.                               *)
(***************************************************************************)
Terminal(op, f) == [op |-> op, f |-> f]

FindPred(t) ==
  CASE t.op = "every" -> Not(t.f)
    [] OTHER          -> t.f

\* join(separator)
Join(sep) == [op |-> "join", f |-> NoFn, sep |-> sep]

Separator(t) == IF t.op = "join" THEN t.sep ELSE <<>>

\* reduce(init, f)
Reduce(init, f) == [op |-> "reduce", f |-> f, init |-> init]

\* let result = init
Initial(t) == IF t.op = "reduce" THEN t.init ELSE Undefined

\* f(result, x, i) for a reducer f
Reduced(f, o, x, i) ==
  CASE f.name = "inc" -> o + 1
    [] OTHER          -> o

\* the terminal consumer t called on the Sequence whose iterable is u
StartOn(u, t) ==
  /\ call.op = "none"
  /\ Len(seqs) + call.nth <= MaxStages + 1
  /\ call' = [call EXCEPT !.op = t.op, !.f = FindPred(t), !.tgt = u, !.st = "run",
                          !.sep = Separator(t), !.val = Initial(t),
                          !.was = its[u].st]
  /\ UNCHANGED <<its, seqs>>

\* ... on the latest Sequence built
Start(t) == StartOn(Cur, t)

\* the call has returned or thrown: the caller goes on
Return ==
  /\ call.st \in {"ret", "threw"}
  /\ call' = [NoCall EXCEPT !.nth = call.nth + 1]
  /\ UNCHANGED <<its, seqs>>

\* next() gave r to the caller
Pulled(r) == r.tag # "cut" /\ its' = r.h

\* the caller itself calls next() once on the iterator of a generator-backed
\* Sequence (a generator is its own iterator)
Pull(u) ==
  /\ call.op = "none"
  /\ its[u].kind # "array"
  /\ its[u].nexts < MaxPulls
  /\ \E r \in IterNext(its, u, 0) : Pulled(r)
  /\ UNCHANGED <<seqs, call>>

IsFind(op) == op \in {"find", "some", "every", "includes"}

\* a find that increments i before the call: f(x, ++i)
FindHitPreIncrement(f, x, i) == Test(f, x, i + 1)

\* Sequence.find: if (f(x, i++)) return x
FindHit(f, x, i) == Test(f, x, i)

\* the value of the call once find has returned v
\*   some:     find(f) !== undefined
\*   every:    !some((x, i) => !f(x, i))
\*   includes: some(x => x === y)
FindFlag(op, v) ==
  CASE op = "every" -> ~(v # Undefined)
    [] OTHER        -> v # Undefined

\* the body of join's loop once y is set: result (a string) afterwards
\*   if (!y) continue
\*   if (!result) result = y; else result += separator + y
JoinStep(result, separator, y) ==
  IF Falsy(y) THEN result
  ELSE IF result = <<>> THEN y.s
  ELSE result \o separator \o y.s

\* the body of the consumer's for-of loop, r being what next() gave
Consume(r) ==
  LET c  == [call EXCEPT !.pos = r.pos, !.reqs = @ + 1,
                         !.seen = IF r.tag = "val" THEN Append(@, r.v) ELSE @]
      op == call.op
  IN  /\ r.tag # "cut"
      /\ IF r.tag = "done"
         THEN /\ its' = r.h
              /\ call' = [c EXCEPT !.st = "ret",
                                   !.flag = IF IsFind(op) THEN FindFlag(op, Undefined) ELSE @]
         ELSE IF r.tag = "throw"
         THEN \* next() threw: the error leaves the loop and the method
              /\ its' = r.h
              /\ call' = [c EXCEPT !.st = "threw", !.err = r.v]
         ELSE IF (IsFind(op) \/ op = "reduce") /\ Throws(call.f, r.v, call.i)
         THEN \* the callback threw inside the loop, which closes the iterator
              /\ its' = IterReturn(r.h, call.tgt)
              /\ call' = [c EXCEPT !.i = @ + 1, !.st = "threw", !.err = "Boom"]
         ELSE CASE op = "collect" ->
                     /\ its' = r.h
                     /\ call' = [c EXCEPT !.out = Append(@, r.v)]
                [] op = "consume" ->
                     /\ its' = r.h
                     /\ call' = c
                [] op = "count" ->
                     /\ its' = r.h
                     /\ call' = [c EXCEPT !.i = @ + 1]
                [] op = "first" ->
                     /\ its' = IterReturn(r.h, call.tgt)
                     /\ call' = [c EXCEPT !.val = r.v, !.st = "ret"]
                [] op = "last" ->
                     /\ its' = r.h
                     /\ call' = [c EXCEPT !.val = r.v]
                [] op = "reduce" ->
                     /\ its' = r.h
                     /\ call' = [c EXCEPT !.val = Reduced(call.f, @, r.v, call.i),
                                          !.i = @ + 1]
                [] op = "join" ->
                     IF ~IsString(r.v) /\ r.v \in {Undefined, Null}
                     THEN \* (x as any).toString throws a TypeError
                          /\ its' = IterReturn(r.h, call.tgt)
                          /\ call' = [c EXCEPT !.st = "threw", !.err = "TypeError"]
                     ELSE /\ its' = r.h
                          /\ call' = [c EXCEPT !.text = JoinStep(@, c.sep, JoinForm(r.v))]
                [] IsFind(op) ->
                     IF FindHit(call.f, r.v, call.i)
                     THEN /\ its' = IterReturn(r.h, call.tgt)
                          /\ call' = [c EXCEPT !.i = @ + 1, !.val = r.v, !.st = "ret",
                                               !.flag = FindFlag(op, r.v)]
                     ELSE /\ its' = r.h
                          /\ call' = [c EXCEPT !.i = @ + 1]

\* one iteration of the consumer's for-of loop over this.iterable
Step ==
  /\ call.st = "run"
  /\ \E r \in IterNext(its, call.tgt, call.pos) : Consume(r)
  /\ UNCHANGED seqs

(***************************************************************************)
(* Inputs.                                                                 *)
(***************************************************************************)
Arrays == SeqsUpTo(Val, MaxLen)

Roots == {ArrayCell(e) : e \in Arrays} \cup {GenerateCell}

Preds == {Eq(0), Eq(Undefined), Ne(0), At(1)}

StagePreds == {Ne(0), At(1)}

Amounts == 0..MaxArg

Stages ==
  {Stage("map", 0, 0, f, NoFn) : f \in {AddIdx, Replace(0, Undefined)}}
  \cup {Stage("filter", 0, 0, f, NoFn) : f \in StagePreds}
  \cup {Stage(k, 0, 0, NoFn, NoFn) : k \in {"forEach", "reverse", "pop", "shift", "sort"}}
  \cup {Stage("concat", 0, 0, NoFn, GenerateCell)}
  \cup {Stage(k, 0, 0, NoFn, ArrayCell(<<1>>)) : k \in {"push", "unshift"}}
  \cup {Stage("slice", a, b, NoFn, NoFn) : a \in 0..(MaxArg - 1), b \in 0..(MaxArg - 1)}
  \cup {Stage("take", a, 0, NoFn, NoFn) : a \in Amounts}
  \cup {Stage("drop", a, 0, NoFn, NoFn) : a \in 0..(MaxArg + 1)}
  \cup {Stage(k, a, 0, NoFn, NoFn) : k \in {"takeLast", "dropLast"}, a \in 0..(MaxArg - 1)}

Terminals ==
  {Terminal(op, NoFn) : op \in {"collect", "consume", "count", "first", "last"}}
  \cup {Terminal(op, f) : op \in {"find", "some", "every"}, f \in Preds}
  \cup {Terminal("includes", Eq(y)) : y \in Val}
  \cup {Reduce(0, Inc)}

Init ==
  /\ \E r \in Roots : its = <<r>>
  /\ seqs = <<1>>
  /\ call = NoCall

Next ==
  \/ \E s \in Stages : Build(s)
  \/ \E t \in Terminals : Start(t)
  \/ Step

Spec == Init /\ [][Next]_vars

(***************************************************************************)
(* Narrower menus of the same operations over the same roots: they reach   *)
(* longer chains and deeper runs of the operations they are about.         *)
(***************************************************************************)
\* chains of map, filter and forEach
LazyStages ==
  {Stage("map", 0, 0, f, NoFn) : f \in {AddIdx, Replace(0, Undefined)}}
  \cup {Stage("filter", 0, 0, f, NoFn) : f \in StagePreds}
  \cup {Stage("forEach", 0, 0, NoFn, NoFn)}

LazyTerminals == {Terminal(op, NoFn) : op \in {"collect", "first"}}

LazyNext ==
  \/ \E s \in LazyStages : Build(s)
  \/ \E t \in LazyTerminals : Start(t)
  \/ Step

LazySpec == Init /\ [][LazyNext]_vars

\* concat with an infinite generator, and take
ShortCircuitStages ==
  {Stage("concat", 0, 0, NoFn, GenerateCell)}
  \cup {Stage("take", a, 0, NoFn, NoFn) : a \in Amounts}

ShortCircuitTerminals == {Terminal(op, NoFn) : op \in {"collect", "count", "first"}}

ShortCircuitNext ==
  \/ \E s \in ShortCircuitStages : Build(s)
  \/ \E t \in ShortCircuitTerminals : Start(t)
  \/ Step

ShortCircuitSpec == Init /\ [][ShortCircuitNext]_vars

\* find over roots, filtered, concatenated and truncated sequences
FindStages ==
  {Stage("filter", 0, 0, f, NoFn) : f \in StagePreds}
  \cup {Stage("concat", 0, 0, NoFn, GenerateCell)}
  \cup {Stage("take", MaxArg, 0, NoFn, NoFn)}

FindTerminals == {Terminal("find", f) : f \in Preds}

FindNext ==
  \/ \E s \in FindStages : Build(s)
  \/ \E t \in FindTerminals : Start(t)
  \/ Step

FindSpec == Init /\ [][FindNext]_vars

\* drop over arrays, lengthened arrays and infinite generators
DropStages ==
  {Stage("drop", a, 0, NoFn, NoFn) : a \in 0..(MaxArg + 1)}
  \cup {Stage("push", 0, 0, NoFn, ArrayCell(<<1>>))}
  \cup {Stage("concat", 0, 0, NoFn, GenerateCell)}

DropTerminals == {Terminal(op, NoFn) : op \in {"collect", "first"}}

DropNext ==
  \/ \E s \in DropStages : Build(s)
  \/ \E t \in DropTerminals : Start(t)
  \/ Step

DropSpec == Init /\ [][DropNext]_vars

\* join over arrays of numbers, strings, undefined, null and objects without
\* toString, and over such arrays filtered or shifted
JoinVals == Val \cup {Null, StrEmpty, StrA, Bare}

JoinRoots ==
  {ArrayCell(e) : e \in SeqsUpTo(JoinVals, MaxLen) \cup {<<1, StrEmpty, 0, StrA>>}}

JoinStages == {Stage("filter", 0, 0, Ne(0), NoFn), Stage("shift", 0, 0, NoFn, NoFn)}

JoinTerminals == {Join(sep) : sep \in {<<";">>, <<";", " ">>}}

JoinInit ==
  /\ \E r \in JoinRoots : its = <<r>>
  /\ seqs = <<1>>
  /\ call = NoCall

JoinNext ==
  \/ \E s \in JoinStages : Build(s)
  \/ \E t \in JoinTerminals : Start(t)
  \/ Step

JoinSpec == JoinInit /\ [][JoinNext]_vars

\* flat over nested arrays.  The heap holds the root array and the arrays
\* nested in it: array j is [x[j], array j+1, 1], the innermost is [x[d+1]].
FlatLeaves == {0, StrA, Undefined}

FlatHeap(d, x) ==
  [j \in 1..(d + 1) |->
     IF j <= d THEN ArrayCell(<<x[j], Ref(j + 1), 1>>) ELSE ArrayCell(<<x[j]>>)]

FlatStages ==
  {Stage("flat", a, 0, NoFn, NoFn) : a \in {Omitted} \cup (-1..(MaxNest + 1))}

FlatInit ==
  /\ \E d \in 0..MaxNest : \E x \in [1..(d + 1) -> FlatLeaves] : its = FlatHeap(d, x)
  /\ seqs = <<1>>
  /\ call = NoCall

FlatNext ==
  \/ \E s \in FlatStages : Build(s)
  \/ \E t \in LazyTerminals : Start(t)
  \/ Step

FlatSpec == FlatInit /\ [][FlatNext]_vars

\* callbacks that throw, under lazy and eager stages
ErrorStages ==
  {Stage(k, 0, 0, ThrowAt(c), NoFn) : k \in {"map", "filter", "forEach"}, c \in 0..1}
  \cup {Stage("sort", 0, 0, ThrowAt(0), NoFn)}
  \cup {Stage(k, 1, 0, NoFn, NoFn) : k \in {"takeLast", "dropLast"}}

ErrorTerminals ==
  LazyTerminals \cup {Terminal("find", ThrowAt(c)) : c \in 0..1}
  \cup {Reduce(0, Inc), Reduce(0, ThrowAt(1))}

ErrorNext ==
  \/ \E s \in ErrorStages : Build(s)
  \/ \E t \in ErrorTerminals : Start(t)
  \/ Step

ErrorSpec == Init /\ [][ErrorNext]_vars

\* takeLast and dropLast over arrays of numbers and the documentation's array
TailRoots == {ArrayCell(e) : e \in SeqsUpTo(Nums, MaxLen) \cup {<<1, 2, 3, 4, 5>>}}

TailStages ==
  {Stage(k, a, 0, NoFn, NoFn) : k \in {"takeLast", "dropLast"}, a \in 0..(MaxArg + 1)}

TailTerminals == {Terminal("collect", NoFn)}

TailInit ==
  /\ \E r \in TailRoots : its = <<r>>
  /\ seqs = <<1>>
  /\ call = NoCall

TailNext ==
  \/ \E s \in TailStages : Build(s)
  \/ \E t \in TailTerminals : Start(t)
  \/ Step

TailSpec == TailInit /\ [][TailNext]_vars

\* Several Sequences built from one another in any shape, the original
\* included, and driven one terminal call after another.  The methods are
\* those that share their name with an Array method that works in place.
AliasStages ==
  {Stage(k, 0, 0, NoFn, NoFn) : k \in {"sort", "reverse", "pop", "shift"}}
  \cup {Stage(k, 0, 0, NoFn, ArrayCell(<<1>>)) : k \in {"push", "unshift"}}

AliasNext ==
  \/ \E k \in 1..Len(seqs) : \E s \in AliasStages : BuildOn(seqs[k], s)
  \/ \E k \in 1..Len(seqs) : \E t \in TailTerminals : StartOn(seqs[k], t)
  \/ Step
  \/ Return

AliasSpec == TailInit /\ [][AliasNext]_vars

\* the arrays [], [0], [0, 1], ... and generate() as sources
Counting(n) == [i \in 1..n |-> (i - 1) % (MaxVal + 1)]

CountRoots ==
  {ArrayCell(Counting(n)) : n \in 0..MaxLen} \cup {GenerateCell}

CountInit ==
  /\ \E r \in CountRoots : its = <<r>>
  /\ seqs = <<1>>
  /\ call = NoCall

\* Two Sequences built on one single-use source and pulled one element at a
\* time in any order, each until it has completed.  The source is
\* generate() or the generator of new Sequence(array).map(f), the
\* array-backed Sequence being dropped.
ShareStages ==
  {Stage("filter", 0, 0, Ne(0), NoFn), Stage("pop", 0, 0, NoFn, NoFn),
   Stage("take", MaxArg, 0, NoFn, NoFn)}

ShareInit ==
  /\ \/ its = <<GenerateCell>>
     \/ \E n \in 0..MaxLen :
          its = PipeLazy(<<ArrayCell(Counting(n))>>, Stage("map", 0, 0, AddIdx, NoFn), 1)
  /\ seqs = <<Len(its)>>
  /\ call = NoCall

ShareNext ==
  \/ \E k \in 1..Len(seqs) : \E s \in ShareStages : BuildOn(seqs[k], s)
  \/ \E k \in 2..Len(seqs) : its[seqs[k]].st # "done" /\ Pull(seqs[k])

ShareSpec == ShareInit /\ [][ShareNext]_vars

\* pop() over arrays, over generate() and over other stages, pulled one
\* element at a time.
PopStages ==
  {Stage("pop", 0, 0, NoFn, NoFn), Stage("filter", 0, 0, Ne(0), NoFn),
   Stage("unshift", 0, 0, NoFn, ArrayCell(<<1>>)),
   Stage("take", MaxArg, 0, NoFn, NoFn)}

PopNext ==
  \/ \E s \in PopStages : Build(s)
  \/ Pull(Cur)

PopSpec == CountInit /\ [][PopNext]_vars

\* Every method that returns a generator-backed Sequence, and terminal
\* consumers called one after the other on the Sequence it returned.
PassStages ==
  {Stage("map", 0, 0, AddIdx, NoFn), Stage("filter", 0, 0, Ne(0), NoFn),
   Stage("concat", 0, 0, NoFn, ArrayCell(<<1>>)), Stage("flat", Omitted, 0, NoFn, NoFn)}
  \cup {Stage(k, 0, 0, NoFn, NoFn) : k \in {"forEach", "reverse", "pop", "shift"}}
  \cup {Stage(k, 0, 0, NoFn, ArrayCell(<<1>>)) : k \in {"push", "unshift"}}
  \cup {Stage("slice", 0, 1, NoFn, NoFn)}
  \cup {Stage(k, 1, 0, NoFn, NoFn) : k \in {"take", "drop", "takeLast", "dropLast"}}

PassTerminals ==
  {Terminal(op, NoFn) : op \in {"collect", "count", "first", "last"}}
  \cup {Reduce(0, Inc)}

PassNext ==
  \/ \E s \in PassStages : Build(s)
  \/ \E t \in PassTerminals : Start(t)
  \/ Step
  \/ Return

PassSpec == CountInit /\ [][PassNext]_vars

\* Traversals that stop early, and a later traversal of any Sequence of the
\* chain.
CloseStages ==
  {Stage("map", 0, 0, AddIdx, NoFn), Stage("filter", 0, 0, Ne(0), NoFn),
   Stage("pop", 0, 0, NoFn, NoFn), Stage("slice", 0, 0, NoFn, NoFn),
   Stage("unshift", 0, 0, NoFn, ArrayCell(<<1>>))}
  \cup {Stage("concat", 0, 0, NoFn, GenerateCell)}
  \cup {Stage("take", a, 0, NoFn, NoFn) : a \in {0, 1}}

CloseTerminals ==
  {Terminal(op, NoFn) : op \in {"first", "collect"}}
  \cup {Terminal("find", f) : f \in {Eq(0), Eq(1)}}
  \cup {Terminal("some", Eq(1)), Terminal("every", Ne(0)), Terminal("includes", Eq(1))}

CloseNext ==
  \/ \E s \in CloseStages : Build(s)
  \/ \E k \in 1..Len(seqs) : \E t \in CloseTerminals : StartOn(seqs[k], t)
  \/ Step
  \/ Return

CloseSpec == CountInit /\ [][CloseNext]_vars

\* The worked examples of the documentation: five-element arrays and
\* amounts up to 3.
ExampleRoots ==
  {ArrayCell(<<0, 1, 2, 3, 4>>), ArrayCell(<<1, 2, 3, 4, 5>>)}
  \cup {GenerateCell}

ExampleStages ==
  {Stage("slice", a, b, NoFn, NoFn) : a \in 0..3, b \in -1..3}
  \cup {Stage(k, 3, 0, NoFn, NoFn) : k \in {"take", "drop"}}

ExampleTerminals == {Terminal(op, NoFn) : op \in {"collect", "count", "first"}}

ExampleInit ==
  /\ \E r \in ExampleRoots : its = <<r>>
  /\ seqs = <<1>>
  /\ call = NoCall

ExampleNext ==
  \/ \E s \in ExampleStages : Build(s)
  \/ \E t \in ExampleTerminals : Start(t)
  \/ Step

ExampleSpec == ExampleInit /\ [][ExampleNext]_vars

(***************************************************************************)
(* Properties.                                                             *)
(***************************************************************************)
\* the generator or array held by the k-th Sequence built (the root is the 1st)
SeqCell(k) == its[seqs[k]]

StageKinds == {SeqCell(k).kind : k \in 2..Len(seqs)}

NoTerminalYet == call.op = "none"

Untouched(c) ==
  c.nexts = 0 /\ c.outs = 0 /\ c.i = 0 /\ c.st = "start" /\ c.xs = <<>>

\* C1: while a chain built only with map, filter and forEach has not been
\* handed to a terminal consumer, no callback has been invoked (each stage's
\* call counter i is 0), no generator body has started and no element has
\* been requested from any iterable, the source included.
C1_LazyUntilTerminal ==
  (NoTerminalYet /\ StageKinds \subseteq {"map", "filter", "forEach"})
    => \A j \in 1..Len(its) : Untouched(its[j])

C1_Witness ==
  /\ NoTerminalYet
  /\ Len(seqs) = 3
  /\ SeqCell(2).kind = "map"
  /\ SeqCell(3).kind = "filter"
  /\ its[1].kind = "array" /\ Len(its[1].elems) = MaxLen

\* C2: as long as no terminal consumer has been called, no iterable has
\* handed out an element: chain-building calls pull nothing.
C2_BuildPullsNothing ==
  NoTerminalYet => \A j \in 1..Len(its) : its[j].outs = 0

\* C3: a take(n) generator with n >= 1 never receives more than n elements
\* from its upstream (it makes no pull after yielding its n-th element).
C3_TakeRequestsAtMostN ==
  \A g \in 1..Len(its) :
    (its[g].kind = "take" /\ its[g].a >= 1) => Len(its[g].xs) <= its[g].a

Max(x, y) == IF x >= y THEN x ELSE y

Range(s) == {s[j] : j \in 1..Len(s)}

Min(x, y) == IF x <= y THEN x ELSE y

\* the first n elements of prim followed by rest
ConcatPrefix(prim, rest, n) == SubSeq(prim \o rest, 1, n)

\* collect() called on  new Sequence(array).concat(infinite).take(n)
IsConcatTakeCollect ==
  /\ Len(seqs) = 3
  /\ its[1].kind = "array"
  /\ SeqCell(2).kind = "concat" /\ SeqCell(2).ups = <<1, 2>> /\ its[2].kind = "generate"
  /\ SeqCell(3).kind = "take"
  /\ call.op = "collect"

\* the running consumer's next pull would drive an infinite generator past
\* MaxDraws: within the model, the call does not return
Blocked ==
  call.st = "run" /\ \E r \in IterNext(its, call.tgt, call.pos) : r.tag = "cut"

\* C4: collect() on array.concat(infinite).take(n) terminates and returns
\* exactly the first n elements of the concatenation, in order: its loop
\* makes at most Max(n,0)+1 pulls, each of which completes, what it has
\* collected is always a prefix of the concatenation, and it returns the
\* first n elements.
C4_ConcatTakeTerminates ==
  IsConcatTakeCollect =>
    LET n == Max(SeqCell(3).a, 0)
    IN  /\ call.reqs <= n + 1
        /\ ~Blocked
        /\ Len(call.out) <= Len(its[1].elems) + Len(its[2].ys)
        /\ call.out = ConcatPrefix(its[1].elems, its[2].ys, Len(call.out))
        /\ call.st = "run" => call.reqs = Len(call.out)
        /\ call.st = "ret" => Len(call.out) = n /\ call.reqs = n + 1

C4_Witness ==
  /\ IsConcatTakeCollect
  /\ call.st = "ret"
  /\ SeqCell(3).a = MaxArg
  /\ Len(its[1].elems) = 1
  /\ Len(call.out) = MaxArg

\* index (from 1) of the first element of s that f accepts at its position, or 0
FirstHit(f, s) ==
  LET hits == {j \in 1..Len(s) : Test(f, s[j], j - 1)}
  IN  IF hits = {} THEN 0 ELSE CHOOSE j \in hits : \A k \in hits : j <= k

\* the first n elements a root iterable produces
RootPrefix(c, n) ==
  IF c.kind = "array" THEN SubSeq(c.elems, 1, n) ELSE ConcatPrefix(<<>>, c.ys, n)

\* C5: find(f) pulls the elements of its sequence in order; while it runs no
\* pulled element satisfied f; it returns the first element x at position i
\* with f(x, i) true after exactly i+1 pulls, or undefined once the sequence
\* is exhausted without a match; over generate() it goes past the numbers
\* the model draws only when none of them matched.
C5_FindFirstMatch ==
  call.op = "find" =>
    LET k == FirstHit(call.f, call.seen)
        n == Len(call.seen)
    IN  /\ Len(seqs) = 1 => call.seen = RootPrefix(its[1], n)
        /\ call.st = "run" => k = 0 /\ call.reqs = n
        /\ (call.st = "ret" /\ k > 0) => k = n /\ call.val = call.seen[k] /\ call.reqs = k
        /\ (call.st = "ret" /\ k = 0) => call.val = Undefined /\ call.reqs = n + 1
        /\ (its[call.tgt].kind = "generate" /\ Blocked) => k = 0 /\ n = MaxDraws

C5_Witness ==
  /\ call.op = "find" /\ call.st = "ret"
  /\ its[call.tgt].kind = "generate"
  /\ call.f = At(1)
  /\ call.val = 1 /\ call.reqs = 2

\* C6: some(f) and includes(y) return true exactly when f(x, i) (x === y for
\* includes) holds for at least one element pulled.
C6_SomeIffExists ==
  (call.op \in {"some", "includes"} /\ call.st = "ret") =>
    (call.flag <=> \E j \in 1..Len(call.seen) : Test(call.f, call.seen[j], j - 1))

\* C7: every(f) returns true exactly when f(x, i) holds for every element
\* pulled (the predicate that reaches find is the negation of f).
C7_EveryIffAll ==
  (call.op = "every" /\ call.st = "ret") =>
    (call.flag <=> \A j \in 1..Len(call.seen) : Test(Not(call.f), call.seen[j], j - 1))

\* C8: at every moment a drop(n) generator has yielded exactly the elements it
\* received at 0-based positions i >= n - 1, in order.
C8_DropKeepsFromNMinus1 ==
  \A g \in 1..Len(its) :
    its[g].kind = "drop" =>
      its[g].ys = SubSeq(its[g].xs, Max(its[g].a, 1), Len(its[g].xs))

C8_Witness ==
  \E g \in 1..Len(its) :
    /\ its[g].kind = "drop" /\ its[g].a = 3
    /\ Len(its[g].xs) = 4 /\ Len(its[g].ys) = 2

\* collect() has returned from  new Sequence(root).<kind>(a)
Collected(root, kind, a) ==
  /\ Len(seqs) = 2
  /\ its[1].kind = "array" /\ its[1].elems = root
  /\ SeqCell(2).kind = kind /\ SeqCell(2).a = a
  /\ call.op = "collect" /\ call.st = "ret"

\* C9 as stated: take(3) over [1,2,3,4,5] collects [1,2,3] and drop(3) over
\* the same source collects [2,3,4,5].
C9_AsStated ==
  /\ Collected(<<1, 2, 3, 4, 5>>, "take", 3) => call.out = <<1, 2, 3>>
  /\ Collected(<<1, 2, 3, 4, 5>>, "drop", 3) => call.out = <<2, 3, 4, 5>>

\* C9 amended: take(3) over [1,2,3,4,5] collects [1,2,3] and drop(3) over the
\* same source collects [3,4,5] (it withholds the first two elements).
C9_TakeDropExample ==
  /\ Collected(<<1, 2, 3, 4, 5>>, "take", 3) => call.out = <<1, 2, 3>>
  /\ Collected(<<1, 2, 3, 4, 5>>, "drop", 3) => call.out = <<3, 4, 5>>

C9_Witness == Collected(<<1, 2, 3, 4, 5>>, "drop", 3) /\ its[1].outs = 5

\* C10: at every moment a slice(start, end) generator has yielded exactly
\* the elements it received at 0-based positions start <= i <= end, in order;
\* once it has received an element at a position beyond end it is closed and
\* has made no further request, so that element is the last it ever pulls;
\* slice(1, 3) over [0,1,2,3,4] collects [1,2,3].
C10_SliceInclusive ==
  /\ \A g \in 1..Len(its) :
       its[g].kind = "slice" =>
         /\ its[g].ys = SubSeq(its[g].xs, Max(its[g].a, 0) + 1,
                                Min(its[g].b + 1, Len(its[g].xs)))
         /\ \A j \in 1..Len(its[g].xs) :
              j - 1 > its[g].b =>
                j = Len(its[g].xs) /\ its[g].st = "done" /\ its[g].reqs = j
  /\ (Collected(<<0, 1, 2, 3, 4>>, "slice", 1) /\ SeqCell(2).b = 3)
       => call.out = <<1, 2, 3>>

C10_Witness ==
  /\ Collected(<<0, 1, 2, 3, 4>>, "slice", 1)
  /\ SeqCell(2).b = 3
  /\ SeqCell(2).xs = <<0, 1, 2, 3, 4>>

\* slice(start, end) over an infinite source has stopped after end + 2 pulls
C10_WitnessInfinite ==
  /\ Len(seqs) = 2 /\ its[1].kind = "generate"
  /\ SeqCell(2).kind = "slice" /\ SeqCell(2).a = 0 /\ SeqCell(2).b = 1
  /\ call.op = "collect" /\ call.st = "ret" /\ Len(call.out) = 2
  /\ its[1].pos = 3 /\ its[1].st = "done"

\* what collect() returns on  new Sequence(src).<kind>(n), kind being takeLast
\* or dropLast
TailOf(kind, src, n) ==
  LET h == PipeEager(<<ArrayCell(src)>>, Stage(kind, n, 0, NoFn, NoFn), src)
  IN  (CHOOSE m \in Spread(h, Len(h), 0, <<>>) : TRUE).out

\* C11: collect() on a Sequence made by takeLast(n) returns the last
\* min(n, L) elements of the array the source was spread into and on one made
\* by dropLast(n) its first max(L - n, 0) elements, in order; that array
\* holds the root's elements when the method was called on the root; for
\* 0 <= n <= L the dropLast(n) result followed by the takeLast(n) result is
\* the source; takeLast(2) and dropLast(2) over [1,2,3,4,5] give [4,5] and
\* [1,2,3].
C11_TakeLastDropLast ==
  \A k \in 2..Len(seqs) :
    (SeqCell(k).via \in {"takeLast", "dropLast"} /\ call.op = "collect"
       /\ call.tgt = seqs[k] /\ call.st = "ret") =>
      LET c   == SeqCell(k)
          src == its[c.ups[1]].elems
          L   == Len(src)
      IN  /\ k = 2 => src = its[1].elems
          /\ c.via = "takeLast" =>
                /\ call.out = SubSeq(src, L - Min(c.n, L) + 1, L)
                /\ c.n <= L => TailOf("dropLast", src, c.n) \o call.out = src
                /\ (src = <<1, 2, 3, 4, 5>> /\ c.n = 2) => call.out = <<4, 5>>
          /\ c.via = "dropLast" =>
                /\ call.out = SubSeq(src, 1, Max(L - c.n, 0))
                /\ c.n <= L => call.out \o TailOf("takeLast", src, c.n) = src
                /\ (src = <<1, 2, 3, 4, 5>> /\ c.n = 2) => call.out = <<1, 2, 3>>

\* takeLast(2) over [1,2,3,4,5] collected
C11_Witness ==
  /\ Len(seqs) = 2 /\ its[1].elems = <<1, 2, 3, 4, 5>>
  /\ SeqCell(2).via = "takeLast" /\ SeqCell(2).n = 2
  /\ call.op = "collect" /\ call.st = "ret" /\ call.out = <<4, 5>>

\* takeLast(n) with n beyond the length of the source collected
C11_WitnessBeyond ==
  /\ Len(seqs) = 2 /\ Len(its[1].elems) = MaxLen
  /\ SeqCell(2).via = "takeLast" /\ SeqCell(2).n = MaxArg + 1
  /\ call.op = "collect" /\ call.st = "ret" /\ Len(call.out) = MaxLen

\* the string form of an element, <<>> for one that has none
FormOf(x) ==
  CASE x \in {Undefined, Null, Bare} -> <<>>
    [] IsString(x) -> Chars(x)
    [] OTHER -> NumText(x)

\* the non-empty string forms of the elements of s, with sep between
\* consecutive ones
RECURSIVE Joined(_, _)
Joined(s, sep) ==
  IF s = <<>> THEN <<>>
  ELSE LET rest == Joined(SubSeq(s, 1, Len(s) - 1), sep)
           y    == FormOf(s[Len(s)])
       IN  IF y = <<>> THEN rest
           ELSE IF rest = <<>> THEN y
           ELSE rest \o sep \o y

\* C12: join(separator) throws nothing and, once the sequence is exhausted,
\* returns the non-empty string forms of the elements pulled, in order, with
\* the separator between consecutive ones; undefined and null elements and
\* elements with an empty or no string form contribute nothing.
C12_JoinSkipsFormless ==
  call.op = "join" =>
    /\ call.st # "threw"
    /\ call.st = "ret" => call.text = Joined(call.seen, call.sep)

\* join(";") over [1, "", 0, "a"] is "1;0;a"
C12_Example ==
  (call.op = "join" /\ call.st = "ret" /\ Len(seqs) = 1 /\ call.sep = <<";">>
     /\ its[1].elems = <<1, StrEmpty, 0, StrA>>)
    => call.text = <<"1", ";", "0", ";", "a">>

\* the elements from the j-th on of the array in heap cell k, flattened d
\* levels deep (every level when d is Omitted): nested arrays are replaced
\* by their flattened elements, every other value is a leaf
RECURSIVE Flattened(_, _, _, _)
Flattened(h, k, j, d) ==
  IF j > Len(h[k].elems) THEN <<>>
  ELSE LET e == h[k].elems[j]
       IN  (IF d = 0 \/ ~IsRef(e) THEN <<e>>
            ELSE Flattened(h, Target(e), 1, IF d = Omitted THEN Omitted ELSE d - 1))
           \o Flattened(h, k, j + 1, d)

\* a terminal consumer runs on  new Sequence(array).flat(depth), depth >= 0
\* or omitted
OnFlatOfRoot ==
  /\ Len(seqs) = 2 /\ SeqCell(2).kind = "flat" /\ SeqCell(2).a >= 0
  /\ call.op \in {"collect", "first"} /\ call.tgt = seqs[2]

\* C13: over a root array, flat(d) with d >= 0 or omitted throws nothing and
\* emits, depth first and left to right, the values nested at most d levels
\* deep (every level when omitted) that are not arrays, strings whole, and
\* the arrays found at level d unexpanded: collect returns exactly these, and
\* what has been pulled so far is always a prefix of them.
C13_FlatDescendsToDepth ==
  OnFlatOfRoot =>
    LET want == Flattened(its, 1, 1, SeqCell(2).a)
    IN  /\ call.st # "threw"
        /\ Len(call.seen) <= Len(want) /\ call.seen = SubSeq(want, 1, Len(call.seen))
        /\ (call.op = "collect" /\ call.st = "ret") => call.out = want

\* flat over arrays free of undefined: the same, which then holds
C13_OverDefined ==
  (\A k \in 1..Len(its) : its[k].kind = "array" => Undefined \notin Range(its[k].elems))
    => C13_FlatDescendsToDepth

\* C14: no Sequence is ever built by flat(depth) with depth < 0 (the call
\* itself throws).
C14_NegativeDepthThrowsAtCall ==
  \A k \in 2..Len(seqs) : SeqCell(k).kind = "flat" => SeqCell(k).a >= 0

\* what flat(depth < 0) does: its Sequence throws "Negative depth" at the
\* first pull of a terminal consumer, before anything is pulled upstream
C14_ThrowsAtFirstPull ==
  \A k \in 2..Len(seqs) :
    (SeqCell(k).kind = "flat" /\ SeqCell(k).a < 0) =>
      /\ SeqCell(k).reqs = 0 /\ SeqCell(k).ys = <<>>
      /\ (call.tgt = seqs[k] /\ call.st # "run")
           => call.st = "threw" /\ call.err = "NegativeDepth" /\ call.reqs = 1

\* C15: an error thrown by a caller-supplied callback is never raised by a
\* chain-building call: the call that throws it is a terminal consumer.
C15_CallbackErrorsAtTerminal ==
  (call.st = "threw" /\ call.err = "Boom")
    => call.op \in {"collect", "first", "find", "reduce"}

\* the chain-building calls that raise a callback's error are the eager ones
C15_OnlyEagerCallsThrow ==
  (call.st = "threw" /\ call.err = "Boom") =>
    call.op \in {"collect", "first", "find", "reduce", "sort", "takeLast", "dropLast"}

\* C16: the Sequence first constructed over an array keeps that array as
\* its iterable and no step changes the elements of the array, whatever is
\* built from it and driven; collect() on it returns those elements whenever
\* it is called.
C16_OriginalUnchanged ==
  /\ [](its[1].kind = "array" =>
         /\ seqs[1] = 1
         /\ (call.op = "collect" /\ call.tgt = 1 /\ call.st = "ret")
              => call.out = its[1].elems)
  /\ [][its[1].kind = "array" =>
          (its'[1].kind = "array" /\ its'[1].elems = its[1].elems)]_vars

\* collect() has returned on the original after a Sequence sorted from it
\* and another built on top were made and an earlier call had driven one
C16_Witness ==
  /\ Len(seqs) = 2 /\ SeqCell(2).kind = "array" /\ its[1].elems = <<1, 0>>
  /\ SeqCell(2).elems = <<0, 1>>
  /\ call.nth = 1
  /\ call.op = "collect" /\ call.tgt = 1 /\ call.st = "ret" /\ call.out = <<1, 0>>

\* collect() has returned on the original after a reversed Sequence built
\* from it was driven to its end
C16_WitnessDriven ==
  /\ Len(seqs) = 2 /\ SeqCell(2).kind = "reverse" /\ SeqCell(2).st = "done"
  /\ its[1].elems = <<1, 0>> /\ call.nth = 1
  /\ call.op = "collect" /\ call.tgt = 1 /\ call.st = "ret" /\ call.out = <<1, 0>>

\* the generators whose for-of loop runs over the single-use iterable u
ConsumersOf(u) ==
  {g \in 1..Len(its) : its[g].kind # "array" /\ its[g].ups = <<u>>}

SingleUse == {u \in 1..Len(its) : its[u].kind # "array"}

\* C17: over a single-use source every pull, from whichever chain, takes
\* the next element the source hands out: what a chain has received are
\* elements of the source's output at strictly increasing ranks, no rank
\* went to two chains, and every element handed out by the source first
\* wrapped, which only the chains pull, went to one of them.
C17_SharedCursor ==
  \A u \in SingleUse :
    /\ \A g \in ConsumersOf(u) :
         /\ Len(its[g].ns) = Len(its[g].xs)
         /\ \A j \in 1..Len(its[g].xs) :
              /\ its[g].ns[j] \in 1..Len(its[u].ys)
              /\ its[g].xs[j] = its[u].ys[its[g].ns[j]]
              /\ j > 1 => its[g].ns[j - 1] < its[g].ns[j]
         /\ \A g2 \in ConsumersOf(u) \ {g} :
              Range(its[g].ns) \cap Range(its[g2].ns) = {}
    /\ UNION {Range(its[g].ns) : g \in ConsumersOf(u)} \subseteq 1..its[u].outs
    /\ u = seqs[1] =>
         UNION {Range(its[g].ns) : g \in ConsumersOf(u)} = 1..its[u].outs

\* two chains on generate() were pulled alternately: one received the
\* first and third numbers drawn, the other the second
C17_Witness ==
  /\ its[1].kind = "generate" /\ Len(seqs) = 3
  /\ ConsumersOf(1) = {2, 3}
  /\ its[2].ns = <<1, 3>> /\ its[3].ns = <<2>>
  /\ its[2].xs = <<0, 0>> /\ its[3].xs = <<1>>

\* two chains on a finite generator: one received both elements, the other
\* found the source at its end
C17_WitnessFinite ==
  /\ its[1].kind = "array" /\ its[2].kind = "map" /\ its[2].st = "done"
  /\ ConsumersOf(2) = {3, 4}
  /\ its[3].ns = <<1>> /\ its[4].ns = <<2>>
  /\ its[3].reqs + its[4].reqs >= 3

AllButLast(s) == IF s = <<>> THEN <<>> ELSE SubSeq(s, 1, Len(s) - 1)

\* C18: what a pop() generator has yielded is, at every moment, what it has
\* received without the element received last: the k-th element goes out
\* only once the (k+1)-th came in, one element at most is held back, and at
\* the end of the upstream the last one (or nothing, for an upstream of
\* length 0 or 1) is missing from the output.
C18_PopLooksOneAhead ==
  \A g \in 1..Len(its) :
    its[g].kind = "pop" =>
      /\ its[g].ys = AllButLast(its[g].xs)
      /\ Len(its[g].xs) - Len(its[g].ys) \in {0, 1}
      /\ \A k \in 1..Len(its[g].ys) : Len(its[g].xs) >= k + 1

\* pop() ran to the end of generate().take(2): one element out, one held back
C18_Witness ==
  \E g \in 1..Len(its) :
    /\ its[g].kind = "pop" /\ its[g].st = "done"
    /\ its[its[g].ups[1]].kind = "take" /\ its[its[g].ups[1]].st = "done"
    /\ its[g].xs = <<0, 1>> /\ its[g].ys = <<0>>

\* pop() ran to the end of an upstream of length 1 and of length 0
C18_WitnessShort ==
  \E g \in 1..Len(its) :
    /\ its[g].kind = "pop" /\ its[g].st = "done"
    /\ its[g].xs = <<1>> /\ its[g].ys = <<>>

C18_WitnessEmpty ==
  \E g \in 1..Len(its) :
    /\ its[g].kind = "pop" /\ its[g].st = "done" /\ its[g].nexts > 0
    /\ its[g].xs = <<>> /\ its[g].ys = <<>>

\* pop() is suspended at its yield, having pulled one element more than it
\* has handed out
C18_WitnessPending ==
  \E g \in 1..Len(its) :
    /\ its[g].kind = "pop" /\ its[g].st = "susp"
    /\ Len(its[g].xs) = 3 /\ Len(its[g].ys) = 2

\* C19: a terminal consumer that ran a generator-backed Sequence to its end
\* leaves the generator completed; a completed generator stays completed
\* and yields nothing more; a terminal consumer called on a Sequence whose
\* generator is completed sees no element: collect() returns [], count()
\* returns 0 and first() returns undefined.
C19_SinglePass ==
  /\ [](call.tgt # 0 /\ its[call.tgt].kind # "array" =>
         /\ (call.st = "ret" /\ call.op \in {"collect", "count", "last", "reduce"})
              => its[call.tgt].st = "done"
         /\ call.was = "done" =>
              /\ call.seen = <<>>
              /\ call.st = "ret" =>
                   /\ call.op = "collect" => call.out = <<>>
                   /\ call.op = "count" => call.i = 0
                   /\ call.op = "reduce" => call.val = 0
                   /\ call.op \in {"first", "last"} => call.val = Undefined)
  /\ [][\A g \in 1..Len(its) :
          its[g].st = "done" => (its'[g].st = "done" /\ its'[g].ys = its[g].ys)]_vars

\* collect() returned [] on new Sequence([0, 1]).map(f) after a first
\* terminal consumer had run it to its end
C19_Witness ==
  /\ its[1].kind = "array" /\ its[1].elems = <<0, 1>>
  /\ Len(seqs) = 2 /\ SeqCell(2).kind = "map" /\ SeqCell(2).ys = <<0, 2>>
  /\ call.nth = 1 /\ call.was = "done"
  /\ call.op = "collect" /\ call.st = "ret" /\ call.out = <<>>

\* count() returned 0 and first() undefined on an exhausted takeLast(1)
C19_WitnessCount ==
  /\ its[1].kind = "array" /\ its[1].elems = <<0, 1>>
  /\ Len(seqs) = 2 /\ SeqCell(2).via = "takeLast" /\ SeqCell(2).ys = <<1>>
  /\ call.nth = 1 /\ call.was = "done"
  /\ call.op = "count" /\ call.st = "ret" /\ call.i = 0

C19_WitnessFirst ==
  /\ its[1].kind = "array" /\ its[1].elems = <<0, 1>>
  /\ Len(seqs) = 2 /\ SeqCell(2).via = "push" /\ SeqCell(2).ys = <<0, 1, 1>>
  /\ call.nth = 1 /\ call.was = "done"
  /\ call.op = "first" /\ call.st = "ret" /\ call.val = Undefined /\ call.reqs = 1

\* the iterables upstream of g, g included
RECURSIVE Upstream(_)
Upstream(g) == {g} \cup UNION {Upstream(its[g].ups[k]) : k \in 1..Len(its[g].ups)}

\* the running call left its loop by a return: every request it made was
\* answered by an element
StoppedEarly ==
  /\ call.st = "ret" /\ call.tgt # 0
  /\ call.op = "first" \/ IsFind(call.op)
  /\ call.reqs >= 1 /\ Len(call.seen) = call.reqs

\* take or slice g was left through its own return or closed at a yield
LimitReached(g) ==
  /\ its[g].kind \in {"take", "slice"} /\ its[g].st = "done"
  /\ its[g].reqs >= 1 /\ Len(its[g].xs) = its[g].reqs

Closed(g) == its[g].kind = "array" \/ its[g].st = "done"

\* C20 as stated: once a traversal stopped early, every generator upstream
\* of the stopping point is completed.
C20_EarlyStopClosesUpstream ==
  /\ StoppedEarly => \A g \in Upstream(call.tgt) : Closed(g)
  /\ \A g \in 1..Len(its) : LimitReached(g) => \A u \in Upstream(g) : Closed(u)

\* the iterable whose iterator generator g held open when it completed:
\* 0 when it held none (never run, or past its last loop)
HeldOpen(g) ==
  IF its[g].kind = "array" \/ its[g].nexts = 0 THEN 0
  ELSE IF its[g].kind = "concat" /\ its[g].i + 1 > Len(its[g].ups) THEN 0
  ELSE LoopsOver(its[g])

\* C20 amended: once a traversal stopped early, the generator it ran over
\* is completed, and every completed generator has closed the iterator of
\* the loop it was in, so that the generators along the chain of loops that
\* were running are all completed.  An iterable that no loop had reached
\* (the ones concat, push or unshift had not come to) is left as it was.
C20_EarlyStopClosesRunningLoops ==
  /\ StoppedEarly => Closed(call.tgt)
  /\ \A g \in 1..Len(its) :
       (its[g].st = "done" /\ HeldOpen(g) # 0) => Closed(HeldOpen(g))

\* first() on generate().map(f) stopped at the first element: map and
\* generate() are both completed
C20_Witness ==
  /\ StoppedEarly /\ call.op = "first"
  /\ its[1].kind = "generate" /\ its[1].st = "done" /\ its[1].outs = 1
  /\ Len(seqs) = 2 /\ call.tgt = seqs[2]
  /\ SeqCell(2).kind = "map" /\ SeqCell(2).st = "done" /\ HeldOpen(seqs[2]) = 1

\* take(1) reached its limit under collect(): it closed the filter it ran
\* over, which closed generate()
C20_WitnessTake ==
  /\ its[1].kind = "generate" /\ its[1].st = "done"
  /\ Len(seqs) = 3 /\ SeqCell(2).kind = "filter" /\ SeqCell(2).st = "done"
  /\ SeqCell(3).kind = "take" /\ SeqCell(3).n = 1 /\ LimitReached(seqs[3])
  /\ call.op = "collect" /\ call.st = "ret" /\ call.out = <<1>>

\* first() on generate().unshift(1) returned 1 and left generate()
\* untouched; a later first() on the original Sequence returned its first
\* element
C20_WitnessLeftOpen ==
  /\ its[1].kind = "generate" /\ its[1].outs = 1 /\ its[1].ys = <<0>>
  /\ Len(seqs) = 2 /\ SeqCell(2).via = "unshift" /\ SeqCell(2).st = "done"
  /\ SeqCell(2).ys = <<1>>
  /\ call.nth = 1 /\ call.was = "start" /\ call.tgt = 1
  /\ call.op = "first" /\ call.st = "ret" /\ call.val = 0

====
